---- MODULE Spec2Model ----
(***************************************************************************)
(* The messaging core of Django-signals_orm-0x04: the Message,             *)
(* Notification and MessageHistory tables (models.py), the pre_save /      *)
(* post_save / post_delete signal handlers (signals.py) and the views that *)
(* write to them (views.py).                                               *)
(*                                                                         *)
(* The database runs in Django's default autocommit mode: the views and    *)
(* the signal handlers open no transaction, so every ORM statement of a    *)
(* request commits on its own and the statements of two requests           *)
(* interleave.  A request is therefore a little process: one slot of req   *)
(* holds its program counter and its local variables.  Every statement of  *)
(* a handler is a function from a world (the tables and the request's      *)
(* locals) to a world; Spec runs each request to its end in one step (the  *)
(* handlers one after another), SpecFail does the same with a statement    *)
(* that may fail, and SpecConc takes one statement of one request at a     *)
(* time.  The one multi-row operation that is atomic is Model.delete():    *)
(* Django's deletion collector runs the cascade and the post_delete        *)
(* handlers inside transaction.atomic.  Foreign keys are enforced by the   *)
(* database: an INSERT or UPDATE whose foreign key does not resolve raises *)
(* IntegrityError.                                                         *)
(*                                                                         *)
(* Beside the messaging core stand the smaller programs of the repository, *)
(* each with variables and a specification of its own: the rate limiter of *)
(* Django-Middleware-0x03 (SpecLimiter), the decorators of                 *)
(* python-decorators-0x01 (SpecCall), the generators of                    *)
(* python-generators-0x00 (SpecGen) and the conversations API of           *)
(* messaging_app (SpecChat).                                               *)
(***************************************************************************)
EXTENDS Integers, FiniteSets, Sequences, TLC

\* ------------------------------------------------------------------ bounds
Users == {1, 2}             \* the user ids that may ever exist
Bodies == {"a", "b", "c"}   \* the bodies an edit may carry
SendBodies == {"a"}         \* the bodies a send may carry
Slots == {1, 2}             \* the requests that may be in flight together
MaxMsgs == 2                \* message ids handed out
MaxNotifs == 3              \* notification ids handed out
MaxHist == 2                \* message-history ids handed out
ThreadMsgs == 3             \* the messages of a conversation that is browsed

None == 0                   \* Python's None, and a missing POST parameter

VARIABLES
    users,          \* auth_user: the ids of the existing users
    messages,       \* messaging_message: id -> row
    notifications,  \* messaging_notification: set of rows
    histories,      \* messaging_messagehistory: set of rows
    nextMsg,        \* AUTOINCREMENT counters: ids are never reused
    nextNotif,
    nextHist,
    req,            \* slot -> the request running in it
    response,       \* the response sent last
    \* Django-Middleware-0x03, OffensiveLanguageMiddleware
    message_counts, \* the class attribute: ip -> the timestamps it holds
    now,            \* the clock datetime.now() reads, in seconds
    passed,         \* ip -> the times of its message POSTs handed to get_response
    served,         \* the request handled last and the status of its response
    \* python-decorators-0x01
    call,           \* a call of a decorated function
    \* python-generators-0x00
    gen,            \* the user_data table and the generators over it
    \* messaging_app
    members,        \* the ids of the users
    conversations,  \* conversation id -> the ids of its participants
    chat_messages,  \* message id -> row
    api             \* the API request handled last and its response

tables == <<users, messages, notifications, histories, nextMsg, nextNotif, nextHist>>
messaging == <<users, messages, notifications, histories, nextMsg, nextNotif, nextHist,
               req, response>>
limiter == <<message_counts, now, passed, served>>
chat == <<members, conversations, chat_messages, api>>
vars == <<messaging, limiter, call, gen, chat>>

\* ------------------------------------------------------------------ rows
\* A Message row (models.py, class Message); timestamp is not modelled.
\* pk = None is an instance that was never saved.
NoInst ==
    [pk |-> None, sender |-> None, receiver |-> None, content |-> "",
     edited |-> FALSE, read |-> FALSE, parent_message |-> None]

Row(inst) ==
    [sender |-> inst.sender, receiver |-> inst.receiver, content |-> inst.content,
     edited |-> inst.edited, read |-> inst.read, parent_message |-> inst.parent_message]

\* Message.objects.get(pk=id) as a model instance.
Load(msgs, id) ==
    [pk |-> id, sender |-> msgs[id].sender, receiver |-> msgs[id].receiver,
     content |-> msgs[id].content, edited |-> msgs[id].edited, read |-> msgs[id].read,
     parent_message |-> msgs[id].parent_message]

\* The template context of a response that renders none.
NoContext == << >>

\* A request: the view (op), where it stands (pc), request.user, the Message
\* instance it holds, the update_fields of its save, old_message.content of the
\* pre_save handler, whether its save has written the message row, the id of
\* the notification it was asked for, and its response: the result and the
\* context handed to the template.
Idle ==
    [op |-> "none", pc |-> "idle", user |-> None, inst |-> NoInst,
     fields |-> "all", old |-> "", saved |-> FALSE, notification |-> None,
     result |-> "none", context |-> NoContext]

\* A request that starts as user u.
Start(op, u) == [Idle EXCEPT !.op = op, !.user = u]

\* The response is sent: what is left of the request is its view, its user, the
\* instance it held, whether it wrote the message row, and the response.
Done(q, res) ==
    [Idle EXCEPT !.op = q.op, !.pc = "done", !.user = q.user, !.inst = q.inst,
                 !.saved = q.saved, !.notification = q.notification,
                 !.result = res, !.context = q.context]

\* The world a statement runs in: the tables and the locals of its request.
World(q) ==
    [users |-> users, messages |-> messages, notifications |-> notifications,
     histories |-> histories, nextMsg |-> nextMsg, nextNotif |-> nextNotif,
     nextHist |-> nextHist, q |-> q]

\* ------------------------------------------------------------------ queries
\* Message.Meta.ordering = ['-timestamp']: the message ids of S, the newest
\* first.  timestamp is auto_now_add and the ids are handed out in the order of
\* the INSERTs, so the newest message is the one with the largest id.
RECURSIVE ByTimestampDesc(_)
ByTimestampDesc(S) ==
    IF S = {} THEN << >>
    ELSE LET i == CHOOSE x \in S : \A y \in S : y <= x
         IN  <<i>> \o ByTimestampDesc(S \ {i})

\* Mutant of get_thread: only the newest reply is returned.
get_threadNewestOnly(msgs, message_id) ==
    LET replies == ByTimestampDesc({i \in DOMAIN msgs :
                                        msgs[i].parent_message = message_id})
    IN  IF replies = << >> THEN << >> ELSE <<replies[1]>>

\* Message.get_thread: Message.objects.filter(parent_message=self), in the
\* model's default ordering; a message stands in the result by its id.
get_thread(msgs, message_id) ==
    ByTimestampDesc({i \in DOMAIN msgs : msgs[i].parent_message = message_id})

\* Mutant of unread_for_user: the read flag is not looked at.
unread_for_userAnyRead(msgs, u) ==
    ByTimestampDesc({i \in DOMAIN msgs : msgs[i].receiver = u})

\* UnreadMessagesManager.unread_for_user: filter(receiver=user, read=False), in
\* the model's default ordering (only() chooses the columns that are loaded).
unread_for_user(msgs, u) ==
    ByTimestampDesc({i \in DOMAIN msgs : msgs[i].receiver = u /\ ~msgs[i].read})

\* Mutant of OrderByEditedAtDesc: the oldest entry comes first.
RECURSIVE OrderByEditedAtAsc(_)
OrderByEditedAtAsc(H) ==
    IF H = {} THEN << >>
    ELSE LET h == CHOOSE x \in H : \A y \in H : x.edited_at <= y.edited_at
         IN  <<h>> \o OrderByEditedAtAsc(H \ {h})

\* order_by('-edited_at') of a set of MessageHistory rows.
RECURSIVE OrderByEditedAtDesc(_)
OrderByEditedAtDesc(H) ==
    IF H = {} THEN << >>
    ELSE LET h == CHOOSE x \in H : \A y \in H : y.edited_at <= x.edited_at
         IN  <<h>> \o OrderByEditedAtDesc(H \ {h})

\* message_detail: MessageHistory.objects.filter(message=message)
\*                     .order_by('-edited_at').
edit_history(hists, message_id) ==
    OrderByEditedAtDesc({h \in hists : h.message = message_id})

\* ------------------------------------------------------------------ foreign keys
\* The foreign keys of a Message row (sender, receiver, parent_message).
MessageFKsOk(w, inst) ==
    /\ inst.sender \in w.users
    /\ inst.receiver \in w.users
    /\ inst.parent_message # None => inst.parent_message \in DOMAIN w.messages

\* ------------------------------------------------------------------ views.py
\* Mutant of ParentResolves: the parent id is taken as given.
ParentUnchecked(w, parent_id) == TRUE

\* send_message: "if parent_message_id: get_object_or_404(Message, ...)".
ParentResolves(w, parent_id) ==
    parent_id = None \/ parent_id \in DOMAIN w.messages

\* send_message, up to Message.objects.create; the instance is the message the
\* POST parameters describe.  The pre_save handler of a new instance does
\* nothing (instance.pk is None), so the INSERT comes next.
send_message(w, u, method, receiver_id, content, parent_id) ==
    LET q == [Start("send", u) EXCEPT
                !.inst = [NoInst EXCEPT !.sender = u, !.receiver = receiver_id,
                                        !.content = content,
                                        !.parent_message = parent_id]]
    IN  [w EXCEPT !.q =
            IF method # "POST" THEN Done(Start("send", u), "form")
            ELSE IF receiver_id = None \/ content = "" THEN Done(q, "required")
            ELSE IF receiver_id \notin w.users THEN Done(q, "Http404")
            ELSE IF ~ParentResolves(w, parent_id) THEN Done(q, "Http404")
            ELSE [q EXCEPT !.pc = "insert"]]

\* Mutant of MayEdit: any logged-in user may edit.
MayEditAnyUser(message, u) == TRUE

\* edit_message: "if message.sender != request.user: return HttpResponseForbidden".
MayEdit(message, u) == message.sender = u

\* edit_message, up to message.save().
edit_message(w, u, message_id, method, new_content) ==
    [w EXCEPT !.q =
        IF message_id \notin DOMAIN w.messages THEN Done(Start("edit", u), "Http404")
        ELSE IF ~MayEdit(w.messages[message_id], u)
             THEN Done([Start("edit", u) EXCEPT !.inst = Load(w.messages, message_id)],
                       "Forbidden")
        ELSE IF method # "POST" \/ new_content = ""
             THEN Done([Start("edit", u) EXCEPT !.inst = Load(w.messages, message_id)], "form")
        ELSE [Start("edit", u) EXCEPT
                !.pc = "presave",
                !.inst = [Load(w.messages, message_id) EXCEPT !.content = new_content]]]

\* Mutant of MarksRead: whoever may view the message marks it read.
MarksReadAnyViewer(message, u) == ~message.read

\* Mutant of MarksRead: the receiver saves the flag at every view.
MarksReadAgain(message, u) == message.receiver = u

\* message_detail: "if message.receiver == request.user and not message.read".
MarksRead(message, u) == message.receiver = u /\ ~message.read

\* message_detail: the context of its template: the replies (get_thread) and
\* the edit history of the message.
DetailContext(w, message_id) ==
    [replies |-> get_thread(w.messages, message_id),
     edit_history |-> edit_history(w.histories, message_id)]

\* message_detail, from its queries to its response.
Render(w) ==
    [w EXCEPT !.q = Done([@ EXCEPT !.context = DetailContext(w, w.q.inst.pk)], "render")]

\* message_detail, up to message.save(update_fields=['read']), or to its
\* response when it saves nothing.
message_detail(w, u, message_id) ==
    IF message_id \notin DOMAIN w.messages
    THEN [w EXCEPT !.q = Done(Start("detail", u), "Http404")]
    ELSE IF w.messages[message_id].sender # u /\ w.messages[message_id].receiver # u
    THEN [w EXCEPT !.q = Done([Start("detail", u) EXCEPT
                                    !.inst = Load(w.messages, message_id)], "Forbidden")]
    ELSE IF MarksRead(w.messages[message_id], u)
    THEN [w EXCEPT !.q = [Start("detail", u) EXCEPT
                            !.pc = "presave", !.fields = "read",
                            !.inst = [Load(w.messages, message_id) EXCEPT !.read = TRUE]]]
    ELSE Render([w EXCEPT !.q = [Start("detail", u) EXCEPT
                                    !.inst = Load(w.messages, message_id)]])

\* threaded_conversation.get_nested_replies: the replies of a message, each
\* with its own nested replies.
RECURSIVE get_nested_replies(_, _)
get_nested_replies(msgs, message_id) ==
    LET replies == get_thread(msgs, message_id)
    IN  [k \in 1..Len(replies) |->
            [message |-> replies[k],
             replies |-> get_nested_replies(msgs, replies[k])]]

\* threaded_conversation: the lookup, the authorisation and the context.
threaded_conversation(w, u, message_id) ==
    LET q == Start("threaded_conversation", u) IN
    IF message_id \notin DOMAIN w.messages
    THEN [w EXCEPT !.q = Done(q, "Http404")]
    ELSE IF w.messages[message_id].sender # u /\ w.messages[message_id].receiver # u
    THEN [w EXCEPT !.q = Done([q EXCEPT !.inst = Load(w.messages, message_id)],
                              "Forbidden")]
    ELSE [w EXCEPT !.q =
            Done([q EXCEPT
                    !.inst = Load(w.messages, message_id),
                    !.context =
                        [root_message |-> message_id,
                         thread_structure |->
                            [message |-> message_id,
                             replies |-> get_nested_replies(w.messages, message_id)]]],
                 "render")]

\* Mutant of OwnNotification: the notification is looked up by its id alone.
AnyNotification(n, notification_id, u) == n.id = notification_id

\* mark_notification_read: get_object_or_404(Notification, id=notification_id,
\* user=request.user).
OwnNotification(n, notification_id, u) == n.id = notification_id /\ n.user = u

\* Mutant of MarkedNotification: the flag is flipped.
ToggledNotification(n) == [n EXCEPT !.read = ~@]

\* mark_notification_read: "notification.read = True".
MarkedNotification(n) == [n EXCEPT !.read = TRUE]

\* mark_notification_read, whatever the request's method: the lookup,
\* notification.save() (no signal handler listens to Notification) and the
\* response, JSON for an XMLHttpRequest and a redirect otherwise.
mark_notification_read(w, u, notification_id, ajax) ==
    LET q == [Start("mark_notification_read", u) EXCEPT !.notification = notification_id]
        found == {n \in w.notifications : OwnNotification(n, notification_id, u)}
    IN  IF found = {} THEN [w EXCEPT !.q = Done(q, "Http404")]
        ELSE LET n == CHOOSE x \in found : TRUE
             IN  [w EXCEPT !.notifications = (@ \ {n}) \cup {MarkedNotification(n)},
                           !.q = Done(q, IF ajax THEN "JsonResponse" ELSE "redirect")]

\* ------------------------------------------------------------------ signals.py
\* Mutant of NotificationType: the parent is not looked at.
NotificationTypeAlwaysMessage(inst) == "message"

\* create_message_notification: the notification type of a created message.
NotificationType(inst) ==
    IF inst.parent_message # None THEN "reply" ELSE "message"

\* create_message_notification: the row it inserts (content stands for the
\* f-string: its wording and the sender).
CreatedNotification(id, inst) ==
    [id |-> id, user |-> inst.receiver, message |-> inst.pk,
     notification_type |-> NotificationType(inst),
     content |-> <<"new", NotificationType(inst), inst.sender>>, read |-> FALSE]

\* create_message_notification, run by post_save with created=True.
create_message_notification(w) ==
    IF w.q.inst.pk \in DOMAIN w.messages /\ w.q.inst.receiver \in w.users
    THEN [w EXCEPT !.notifications = @ \cup {CreatedNotification(w.nextNotif, w.q.inst)},
                   !.nextNotif = @ + 1,
                   !.q = Done(@, "redirect")]
    ELSE [w EXCEPT !.q = Done(@, "IntegrityError")]

\* Mutant of ContentChanged: every save of a stored message is logged.
ContentChangedAlways(old, inst) == TRUE

\* log_message_edit: "if old_message.content != instance.content".
ContentChanged(old, inst) == old.content # inst.content

\* log_message_edit, its reads: instance.pk, Message.objects.get and the
\* comparison of the stored content with the instance's.
log_message_edit(w) ==
    LET inst == w.q.inst IN
    IF inst.pk = None \/ inst.pk \notin DOMAIN w.messages
    THEN [w EXCEPT !.q.pc = "update"]
    ELSE IF ContentChanged(w.messages[inst.pk], inst)
         THEN [w EXCEPT !.q.pc = "hist", !.q.inst.edited = TRUE,
                        !.q.old = w.messages[inst.pk].content]
    ELSE [w EXCEPT !.q.pc = "update"]

\* Mutant of HistoryRow: the instance's content is recorded, not the stored one.
HistoryRowOfInstance(id, q) ==
    [id |-> id, message |-> q.inst.pk, old_content |-> q.inst.content,
     edited_at |-> id, edited_by |-> q.inst.sender]

\* log_message_edit: the MessageHistory row (message=old_message,
\* old_content=old_message.content, edited_by=instance.sender).  edited_at is
\* auto_now_add, the time of the INSERT: the clock is read as the number of the
\* INSERT, which is the row's id.
HistoryRow(id, q) ==
    [id |-> id, message |-> q.inst.pk, old_content |-> q.old,
     edited_at |-> id, edited_by |-> q.inst.sender]

\* log_message_edit: MessageHistory.objects.create.
CreateHistory(w) ==
    IF w.q.inst.pk \in DOMAIN w.messages /\ w.q.inst.sender \in w.users
    THEN [w EXCEPT !.histories = @ \cup {HistoryRow(w.nextHist, w.q)},
                   !.nextHist = @ + 1,
                   !.q.pc = "notif"]
    ELSE [w EXCEPT !.q = Done(@, "IntegrityError")]

\* log_message_edit: the Notification row of an edit.
EditNotification(id, inst) ==
    [id |-> id, user |-> inst.receiver, message |-> inst.pk,
     notification_type |-> "edit", content |-> <<"edited", "edit", inst.sender>>,
     read |-> FALSE]

\* log_message_edit: Notification.objects.create.
CreateEditNotification(w) ==
    IF w.q.inst.pk \in DOMAIN w.messages /\ w.q.inst.receiver \in w.users
    THEN [w EXCEPT !.notifications = @ \cup {EditNotification(w.nextNotif, w.q.inst)},
                   !.nextNotif = @ + 1,
                   !.q.pc = "update"]
    ELSE [w EXCEPT !.q = Done(@, "IntegrityError")]

\* ------------------------------------------------------------------ Model.save
\* The row a save writes over the stored one: every field, or with
\* update_fields=['read'] the read flag alone.
Written(stored, inst, fields) ==
    IF fields = "read" THEN [stored EXCEPT !.read = inst.read] ELSE Row(inst)

\* The response of a request whose save went through.
SavedResult(op) == IF op = "detail" THEN "render" ELSE "redirect"

\* What follows the save in the view: message_detail goes on to its queries and
\* renders, edit_message redirects.
AfterSave(w) ==
    IF w.q.op = "detail" THEN Render(w) ELSE [w EXCEPT !.q = Done(@, SavedResult(w.q.op))]

\* message.save() of an instance that has a pk: the UPDATE; when it matches no
\* row, an error under update_fields and otherwise an INSERT of the instance,
\* after which post_save runs with created=True.
SaveUpdate(w) ==
    LET inst == w.q.inst IN
    IF inst.pk \in DOMAIN w.messages
    THEN IF MessageFKsOk(w, inst)
         THEN AfterSave([w EXCEPT !.messages[inst.pk] = Written(@, inst, w.q.fields),
                                  !.q.saved = TRUE])
         ELSE [w EXCEPT !.q = Done(@, "IntegrityError")]
    ELSE IF w.q.fields = "read" THEN [w EXCEPT !.q = Done(@, "DatabaseError")]
    ELSE IF MessageFKsOk(w, inst)
         THEN [w EXCEPT !.messages = (inst.pk :> Row(inst)) @@ @,
                        !.q.saved = TRUE,
                        !.q.pc = "postsave"]
    ELSE [w EXCEPT !.q = Done(@, "IntegrityError")]

\* Message.objects.create: the INSERT, which hands out the id.
SaveInsert(w) ==
    IF MessageFKsOk(w, w.q.inst)
    THEN [w EXCEPT !.messages = (w.nextMsg :> Row(w.q.inst)) @@ @,
                   !.nextMsg = @ + 1,
                   !.q.pc = "postsave",
                   !.q.saved = TRUE,
                   !.q.inst.pk = w.nextMsg]
    ELSE [w EXCEPT !.q = Done(@, "IntegrityError")]

\* ------------------------------------------------------------------ deletion
\* Mutant of CascadeMessages: parent_message does not cascade.
CascadeNoReplies(msgs, S) == S

\* The rows a deletion of the message set S takes with it through
\* Message.parent_message (on_delete=CASCADE): the replies, transitively.
RECURSIVE CascadeMessages(_, _)
CascadeMessages(msgs, S) ==
    LET R == {i \in DOMAIN msgs : msgs[i].parent_message \in S} \ S
    IN  IF R = {} THEN S ELSE CascadeMessages(msgs, S \cup R)

\* Mutant of DeleteMessages: Notification.message does not cascade.
DeleteMessagesKeepNotifications(w, S) ==
    LET D == S \cup {i \in DOMAIN w.messages : w.messages[i].parent_message \in S}
    IN  [w EXCEPT !.messages = [i \in DOMAIN w.messages \ D |-> w.messages[i]],
                  !.histories = {h \in @ : h.message \notin D}]

\* Mutant of DeleteMessages: MessageHistory.message does not cascade.
DeleteMessagesKeepHistories(w, S) ==
    LET D == S \cup {i \in DOMAIN w.messages : w.messages[i].parent_message \in S}
    IN  [w EXCEPT !.messages = [i \in DOMAIN w.messages \ D |-> w.messages[i]],
                  !.notifications = {n \in @ : n.message \notin D}]

\* QuerySet.delete() of the messages in S: the collector deletes them, their
\* replies, and through Notification.message and MessageHistory.message
\* (on_delete=CASCADE) the rows that reference any of them.
DeleteMessages(w, S) ==
    LET D == CascadeMessages(w.messages, S)
    IN  [w EXCEPT !.messages = [i \in DOMAIN w.messages \ D |-> w.messages[i]],
                  !.notifications = {n \in @ : n.message \notin D},
                  !.histories = {h \in @ : h.message \notin D}]

\* user.delete(): the collector follows Message.sender, Message.receiver,
\* Notification.user and MessageHistory.edited_by (all on_delete=CASCADE).
CollectorDeleteUser(w, u) ==
    LET own == {i \in DOMAIN w.messages :
                    w.messages[i].sender = u \/ w.messages[i].receiver = u}
    IN  [DeleteMessages(w, own) EXCEPT
            !.users = @ \ {u},
            !.notifications = {n \in @ : n.user # u},
            !.histories = {h \in @ : h.edited_by # u}]

\* Mutant of delete_user_related_data: the handler also tells every user who is
\* left that an account was deleted.
delete_user_related_dataNotifying(w, u) ==
    LET w1 == DeleteMessages(w, {i \in DOMAIN w.messages : w.messages[i].sender = u})
        w2 == DeleteMessages(w1, {i \in DOMAIN w1.messages : w1.messages[i].receiver = u})
    IN  [w2 EXCEPT !.notifications =
                        {n \in @ : n.user # u} \cup
                        {[id |-> w.nextNotif + v, user |-> v, message |-> None,
                          notification_type |-> "message",
                          content |-> <<"deleted", "message", u>>, read |-> FALSE] :
                            v \in w.users},
                   !.nextNotif = @ + 1 + Cardinality(Users),
                   !.histories = {h \in @ : h.edited_by # u}]

\* delete_user_related_data (post_delete of User): four filtered deletes.
delete_user_related_data(w, u) ==
    LET w1 == DeleteMessages(w, {i \in DOMAIN w.messages : w.messages[i].sender = u})
        w2 == DeleteMessages(w1, {i \in DOMAIN w1.messages : w1.messages[i].receiver = u})
    IN  [w2 EXCEPT !.notifications = {n \in @ : n.user # u},
                   !.histories = {h \in @ : h.edited_by # u}]

\* views.py delete_user: user.delete() is the collector's cascade followed by
\* the post_delete handler, in one transaction; when the transaction fails
\* (committed = FALSE) it is rolled back.
delete_user(w, u, method, committed) ==
    IF method # "POST" THEN [w EXCEPT !.q = Done(Start("delete", u), "form")]
    ELSE IF ~committed THEN [w EXCEPT !.q = Done(Start("delete", u), "DatabaseError")]
    ELSE [delete_user_related_data(CollectorDeleteUser(w, u), u) EXCEPT
            !.q = Done(Start("delete", u), "redirect")]

\* ------------------------------------------------------------------ requests
\* The statement a request executes next.
Statement(w) ==
    CASE w.q.pc = "presave"  -> log_message_edit(w)
      [] w.q.pc = "hist"     -> CreateHistory(w)
      [] w.q.pc = "notif"    -> CreateEditNotification(w)
      [] w.q.pc = "update"   -> SaveUpdate(w)
      [] w.q.pc = "insert"   -> SaveInsert(w)
      [] w.q.pc = "postsave" -> create_message_notification(w)
      [] OTHER               -> w

\* The statements that write.
WritePcs == {"hist", "notif", "update", "insert", "postsave"}

\* A statement that writes fails in the database (a timeout, a lost
\* connection): the exception leaves the view, and what the request's earlier
\* statements committed stays.
DbError(w) == [w EXCEPT !.q = Done(@, "DatabaseError")]

\* A request run to its response; the writing statement failAt, if the request
\* comes to it, fails.
RECURSIVE Run(_, _)
Run(w, failAt) ==
    IF w.q.pc = "done" THEN w
    ELSE IF w.q.pc = failAt THEN DbError(w)
    ELSE Run(Statement(w), failAt)

\* The ids the next statement of a request needs are within the bounds.
InBounds(w) ==
    /\ w.q.pc = "hist" => w.nextHist <= MaxHist
    /\ w.q.pc \in {"notif", "postsave"} => w.nextNotif <= MaxNotifs
    /\ w.q.pc = "insert" => w.nextMsg <= MaxMsgs

\* The tables become those of w.
Tables(w) ==
    /\ users' = w.users
    /\ messages' = w.messages
    /\ notifications' = w.notifications
    /\ histories' = w.histories
    /\ nextMsg' = w.nextMsg
    /\ nextNotif' = w.nextNotif
    /\ nextHist' = w.nextHist

Free(r) == req[r].pc = "idle"

Methods == {"GET", "POST"}

\* The values of a POST parameter; a GET request carries none.
Param(method, values) == IF method = "POST" THEN values \cup {None} ELSE {None}
Content(method, bodies) == IF method = "POST" THEN bodies \cup {""} ELSE {""}
MessageIds == 1..MaxMsgs
NoFail == "none"

\* The writing statements of an edit's save, any of which may be the one to fail.
EditWrites == {"hist", "notif", "update"}
FailAt == EditWrites \cup {NoFail}

\* --- a request from its first statement to its response --------------------
\* The request of slot r ran to its end in w: its response is the one sent last.
Respond(r, w) ==
    /\ Free(r)
    /\ Tables(w)
    /\ response' = w.q
    /\ UNCHANGED <<req, limiter, call, gen, chat>>

Send(r, failAt) ==
    \E u \in users, method \in Methods :
    \E receiver_id \in Param(method, Users), content \in Content(method, SendBodies),
       parent_id \in Param(method, MessageIds) :
        /\ nextMsg <= MaxMsgs /\ nextNotif <= MaxNotifs
        /\ Respond(r, Run(send_message(World(Idle), u, method, receiver_id, content,
                                       parent_id), failAt))

Edit(r, failAt) ==
    \E u \in users, message_id \in MessageIds, method \in Methods :
    \E new_content \in Content(method, Bodies) :
        /\ nextHist <= MaxHist /\ nextNotif <= MaxNotifs
        /\ Respond(r, Run(edit_message(World(Idle), u, message_id, method, new_content),
                          failAt))

Detail(r, failAt) ==
    \E u \in users, message_id \in MessageIds :
        Respond(r, Run(message_detail(World(Idle), u, message_id), failAt))

DeleteUser(r) ==
    \E u \in users, method \in Methods, committed \in BOOLEAN :
        Respond(r, delete_user(World(Idle), u, method, committed))

NotificationIds == 1..MaxNotifs

MarkNotificationRead(r) ==
    \E u \in users, notification_id \in NotificationIds, ajax \in BOOLEAN :
        Respond(r, mark_notification_read(World(Idle), u, notification_id, ajax))

\* --- a request one statement at a time -------------------------------------
\* Slot r holds the request of w, or is free again once the response is sent
\* (the responses of interleaved requests are not recorded).
Proceed(r, w) ==
    /\ Tables(w)
    /\ req' = [req EXCEPT ![r] = IF w.q.pc = "done" THEN Idle ELSE w.q]
    /\ UNCHANGED <<response, limiter, call, gen, chat>>

\* The slots are interchangeable: a request takes slot 2 only while slot 1 is busy.
Takes(r) == Free(r) /\ (r = 2 => ~Free(1))

SendBegin(r) ==
    \E u \in users, method \in Methods :
    \E receiver_id \in Param(method, Users), content \in Content(method, SendBodies),
       parent_id \in Param(method, MessageIds) :
        /\ Takes(r)
        /\ nextMsg <= MaxMsgs /\ nextNotif <= MaxNotifs
        /\ Proceed(r, send_message(World(Idle), u, method, receiver_id, content, parent_id))

EditBegin(r) ==
    \E u \in users, message_id \in MessageIds, method \in Methods :
    \E new_content \in Content(method, Bodies) :
        /\ Takes(r)
        /\ nextHist <= MaxHist /\ nextNotif <= MaxNotifs
        /\ Proceed(r, edit_message(World(Idle), u, message_id, method, new_content))

DetailBegin(r) ==
    \E u \in users, message_id \in MessageIds :
        /\ Takes(r)
        /\ Proceed(r, message_detail(World(Idle), u, message_id))

DeleteUserBegin(r) ==
    \E u \in users, method \in Methods, committed \in BOOLEAN :
        /\ Takes(r)
        /\ Proceed(r, delete_user(World(Idle), u, method, committed))

Execute(r) ==
    /\ ~Free(r)
    /\ InBounds(World(req[r]))
    /\ Proceed(r, Statement(World(req[r])))

\* ================================================================== middleware.py
\* OffensiveLanguageMiddleware.MAX_MESSAGES and TIME_WINDOW.
MAX_MESSAGES == 5
TIME_WINDOW == 60

\* The addresses a request may come from or name in X-Forwarded-For.
Addresses == {"10.0.0.1", "10.0.0.2"}

\* The requests: the method, the path, the first address of the
\* X-Forwarded-For header ("" without the header) and REMOTE_ADDR.
Requests ==
    [method : {"GET", "POST"},
     path : {"/api/messages/", "/api/conversations/"},
     forwarded : {"", "10.0.0.2"},
     remote : {"10.0.0.1"}]

NoRequest == [method |-> "", path |-> "", forwarded |-> "", remote |-> ""]

\* The clock advances by one of these between two requests.
Advances == {30}
MaxClock == 60

\* Mutant of get_client_ip: the header is ignored.
get_client_ipRemote(request) == request.remote

\* get_client_ip: the first address of X-Forwarded-For, or REMOTE_ADDR.
get_client_ip(request) ==
    IF request.forwarded # "" THEN request.forwarded ELSE request.remote

\* Mutant of Counted: every POST is counted.
CountedAnyPost(request) == request.method = "POST"

\* __call__: "request.method == 'POST' and '/api/messages' in request.path".
Counted(request) == request.method = "POST" /\ request.path = "/api/messages/"

\* Mutant of Recent: a timestamp is dropped only when it is older than the window.
RecentInclusive(timestamps, current_time) ==
    SelectSeq(timestamps, LAMBDA t : current_time - t <= TIME_WINDOW)

\* __call__: the timestamps that stay, "current_time - timestamp < TIME_WINDOW".
Recent(timestamps, current_time) ==
    SelectSeq(timestamps, LAMBDA t : current_time - t < TIME_WINDOW)

\* Mutant of Limited: one request more is let through.
LimitedAbove(timestamps) == Len(timestamps) > MAX_MESSAGES

\* __call__: "len(self.message_counts[ip_address]) >= self.MAX_MESSAGES".
Limited(timestamps) == Len(timestamps) >= MAX_MESSAGES

\* The status of the response get_response returns.
Ok == 200
TooManyRequests == 429

\* OffensiveLanguageMiddleware.__call__, one request from its first statement
\* to its response.
OffensiveLanguageMiddleware(request) ==
    LET ip == get_client_ip(request)
        kept == Recent(message_counts[ip], now)
    IN  /\ IF ~Counted(request)
           THEN /\ UNCHANGED <<message_counts, passed>>
                /\ served' = [request |-> request, status |-> Ok]
           ELSE IF Limited(kept)
           THEN /\ message_counts' = [message_counts EXCEPT ![ip] = kept]
                /\ UNCHANGED passed
                /\ served' = [request |-> request, status |-> TooManyRequests]
           ELSE /\ message_counts' = [message_counts EXCEPT ![ip] = Append(kept, now)]
                /\ passed' = [passed EXCEPT ![ip] = Append(@, now)]
                /\ served' = [request |-> request, status |-> Ok]
        /\ UNCHANGED <<now, messaging, call, gen, chat>>

Handle == \E request \in Requests : OffensiveLanguageMiddleware(request)

\* Time passes between two requests.
Tick ==
    \E d \in Advances :
        /\ now + d <= MaxClock
        /\ now' = now + d
        /\ UNCHANGED <<message_counts, passed, served, messaging, call, gen, chat>>

\* message_counts = defaultdict(list) at class creation; no request yet.
LimiterInit ==
    /\ message_counts = [ip \in Addresses |-> << >>]
    /\ now = 0
    /\ passed = [ip \in Addresses |-> << >>]
    /\ served = [request |-> NoRequest, status |-> None]

\* ================================================================== 3-retry_on_failure.py
\* The greatest number of retries a decorated function is given.
MaxRetries == 3

\* What one invocation of the decorated function can do: return the rows, or
\* raise an exception that is an Exception, or one that is only a BaseException.
Results == {"[]", "[(1, 'a')]"}
Exceptions == {"OperationalError", "DatabaseError"}
BaseExceptions == {"KeyboardInterrupt"}

NoOutcome == [kind |-> "", value |-> ""]
Returns(value) == [kind |-> "return", value |-> value]
Raises(e) == [kind |-> "raise", value |-> e]

\* The call before it is made: no connection, no invocation, no outcome.
\*   pc          where the call stands
\*   retries     the argument of retry_on_failure
\*   attempt     the local of retry_on_failure's wrapper
\*   conn        "", "open" or "closed"
\*   opened, closed   how often sqlite3.connect returned and conn.close ran
\*   log         per invocation of the function: what it did, and the state
\*               of the connection it was handed
\*   outcome     what retry_on_failure's wrapper returned or raised
NoCall ==
    [pc |-> "idle", retries |-> 0, attempt |-> 0, conn |-> "", opened |-> 0,
     closed |-> 0, log |-> << >>, outcome |-> NoOutcome]

\* Mutant of Exhausted: one failure more is tolerated.
ExhaustedAbove(attempt, retries) == attempt > retries

\* retry_on_failure: "if attempt >= retries: raise".
Exhausted(attempt, retries) == attempt >= retries

\* Mutant of Finally: the connection is closed only when the function returned.
FinallyOnReturn(outcome) == outcome.kind = "return"

\* with_db_connection: the finally clause runs however the try block ends.
Finally(outcome) == outcome.kind \in {"return", "raise"}

\* fetch_users_with_retry(), decorated with retry_on_failure(retries=n).
Call ==
    \E n \in 0..MaxRetries :
        /\ call.pc = "idle"
        /\ call' = [call EXCEPT !.pc = "connect", !.retries = n]
        /\ UNCHANGED <<messaging, limiter, gen, chat>>

\* with_db_connection: conn = sqlite3.connect('users.db'), which may raise;
\* then retry_on_failure's wrapper starts with attempt = 0.
Connect ==
    /\ call.pc = "connect"
    /\ \/ call' = [call EXCEPT !.pc = "while", !.conn = "open",
                                !.opened = @ + 1, !.attempt = 0]
       \/ \E e \in Exceptions :
            call' = [call EXCEPT !.pc = "done", !.outcome = Raises(e)]
    /\ UNCHANGED <<messaging, limiter, gen, chat>>

\* retry_on_failure: "while attempt < retries"; a wrapper that leaves the loop
\* reaches the end of its body and returns None.
While ==
    /\ call.pc = "while"
    /\ call' = IF call.attempt < call.retries
               THEN [call EXCEPT !.pc = "try"]
               ELSE [call EXCEPT !.pc = "finally", !.outcome = Returns("None")]
    /\ UNCHANGED <<messaging, limiter, gen, chat>>

\* retry_on_failure: "return func(*args, **kwargs)" and its except clause.
Invoke ==
    /\ call.pc = "try"
    /\ \E did \in Results \cup Exceptions \cup BaseExceptions :
        LET logged == Append(call.log, [did |-> did, conn |-> call.conn])
            attempt == call.attempt + 1
        IN  call' =
                IF did \in Results
                THEN [call EXCEPT !.pc = "finally", !.log = logged,
                                  !.outcome = Returns(did)]
                ELSE IF did \in BaseExceptions
                THEN [call EXCEPT !.pc = "finally", !.log = logged,
                                  !.outcome = Raises(did)]
                ELSE IF Exhausted(attempt, call.retries)
                THEN [call EXCEPT !.pc = "finally", !.log = logged,
                                  !.attempt = attempt, !.outcome = Raises(did)]
                ELSE [call EXCEPT !.pc = "sleep", !.log = logged,
                                  !.attempt = attempt]
    /\ UNCHANGED <<messaging, limiter, gen, chat>>

\* retry_on_failure: time.sleep(delay), then the loop's condition again.
Sleep ==
    /\ call.pc = "sleep"
    /\ call' = [call EXCEPT !.pc = "while"]
    /\ UNCHANGED <<messaging, limiter, gen, chat>>

\* with_db_connection: "finally: conn.close()", then the call is over.
Close ==
    /\ call.pc = "finally"
    /\ call' = IF Finally(call.outcome)
               THEN [call EXCEPT !.pc = "done", !.conn = "closed", !.closed = @ + 1]
               ELSE [call EXCEPT !.pc = "done"]
    /\ UNCHANGED <<messaging, limiter, gen, chat>>

CallInit == call = NoCall
\* ================================================================== python-generators-0x00
\* The tables of user_data: at most MaxRows rows, a row being its place in the
\* scan and its age (seed.py: age DECIMAL NOT NULL), and the sizes asked for.
MaxRows == 3
MaxSize == 3
Ages == {20, 25, 30}
Rows == [user_id : 1..MaxRows, age : Ages]
user_data ==
    UNION {{t \in [1..n -> Rows] : \A i \in 1..n : t[i].user_id = i} : n \in 0..MaxRows}
Generators == {"lazy_pagination", "stream_users_in_batches", "batch_processing"}

\* seqs, a sequence of sequences, as one sequence.
RECURSIVE Flatten(_)
Flatten(seqs) ==
    IF seqs = << >> THEN << >> ELSE Head(seqs) \o Flatten(Tail(seqs))

\* paginate_users: "SELECT * FROM user_data LIMIT page_size OFFSET offset".
paginate_users(table, page_size, offset) ==
    IF offset >= Len(table) THEN << >>
    ELSE SubSeq(table, offset + 1,
                IF offset + page_size < Len(table) THEN offset + page_size ELSE Len(table))

\* Mutant of NextOffset: the offset moves on by one row.
NextOffsetByOne(offset, page_size) == offset + 1

\* lazy_pagination: "offset += page_size".
NextOffset(offset, page_size) == offset + page_size

\* Mutant of Leftover: the rows after the last full batch are dropped.
LeftoverNever(batch) == FALSE

\* stream_users_in_batches: "if batch:" after the cursor is exhausted.
Leftover(batch) == batch # << >>

\* stream_users_in_batches: "for row in cursor" from row pos + 1 on, with the
\* batch so far, up to the next yield of the loop or the cursor's end.
RECURSIVE Fill(_, _, _, _)
Fill(table, pos, batch, batch_size) ==
    IF pos >= Len(table)
    THEN [batch |-> batch, pos |-> pos, exhausted |-> TRUE]
    ELSE LET appended == Append(batch, table[pos + 1])
         IN  IF Len(appended) = batch_size
             THEN [batch |-> appended, pos |-> pos + 1, exhausted |-> FALSE]
             ELSE Fill(table, pos + 1, appended, batch_size)

\* batch_processing: "[user for user in batch if float(user.get('age', 0)) > 25]".
Filtered(batch) == SelectSeq(batch, LAMBDA user : user.age > 25)

\* No generator yet.
\*   pc        "idle", "created" (not started), "yielded" (suspended at the
\*             yield of the loop), "last" (suspended at the yield after the
\*             loop) or "done" (exhausted)
\*   fn        the generator function, or batch_processing driving one
\*   table, size   user_data and page_size or batch_size
\*   offset    lazy_pagination's local
\*   asked     the number of next() calls made by the consumer
\*   fetched   the offsets paginate_users was called with
\*   yielded   the pages or batches yielded
\*   pos       the number of rows the cursor has delivered
\*   failed    a mysql.connector.Error ended the stream
\*   result    batch_processing's all_filtered_users
NoGenerator ==
    [pc |-> "idle", fn |-> "", table |-> << >>, size |-> 0, offset |-> 0,
     asked |-> 0, fetched |-> << >>, yielded |-> << >>, pos |-> 0,
     failed |-> FALSE, result |-> << >>]

\* One next() on lazy_pagination(g.size): the statements from the resumption
\* (or the start) to the next yield or the break.
lazy_pagination(g) ==
    LET offset == IF g.pc = "created" THEN 0 ELSE NextOffset(g.offset, g.size)
        page == paginate_users(g.table, g.size, offset)
    IN  [g EXCEPT !.offset = offset,
                  !.asked = @ + 1,
                  !.fetched = Append(@, offset),
                  !.yielded = IF page = << >> THEN @ ELSE Append(@, page),
                  !.pc = IF page = << >> THEN "done" ELSE "yielded"]

\* One next() on stream_users_in_batches(g.size): from the resumption (or the
\* start) to the next yield or the end; error: the connection or the cursor
\* raises a mysql.connector.Error, which the except clause swallows.
stream_users_in_batches(g, error) ==
    LET filled == Fill(g.table, g.pos, << >>, g.size)
    IN  IF g.pc = "last" THEN [g EXCEPT !.asked = @ + 1, !.pc = "done"]
        ELSE IF error THEN [g EXCEPT !.asked = @ + 1, !.pc = "done", !.failed = TRUE]
        ELSE IF ~filled.exhausted
        THEN [g EXCEPT !.asked = @ + 1, !.pos = filled.pos, !.pc = "yielded",
                       !.yielded = Append(@, filled.batch)]
        ELSE IF Leftover(filled.batch)
        THEN [g EXCEPT !.asked = @ + 1, !.pos = filled.pos, !.pc = "last",
                       !.yielded = Append(@, filled.batch)]
        ELSE [g EXCEPT !.asked = @ + 1, !.pos = filled.pos, !.pc = "done"]

\* One round of batch_processing's for loop: the next batch, filtered and
\* appended to all_filtered_users.
batch_processing(g, error) ==
    LET after == stream_users_in_batches(g, error)
    IN  IF Len(after.yielded) > Len(g.yielded)
        THEN [after EXCEPT !.result = @ \o Filtered(after.yielded[Len(after.yielded)])]
        ELSE after

\* A generator is made over some table, with some size.
Generate ==
    \E fn \in Generators, table \in user_data, size \in 1..MaxSize :
        /\ gen.pc = "idle"
        /\ gen' = [gen EXCEPT !.pc = "created", !.fn = fn, !.table = table,
                              !.size = size]
        /\ UNCHANGED <<messaging, limiter, call, chat>>

\* The consumer asks lazy_pagination for its next page.
NextPage ==
    /\ gen.fn = "lazy_pagination"
    /\ gen.pc \in {"created", "yielded"}
    /\ gen' = lazy_pagination(gen)
    /\ UNCHANGED <<messaging, limiter, call, chat>>

\* The consumer asks stream_users_in_batches for its next batch.
NextBatch ==
    /\ gen.fn = "stream_users_in_batches"
    /\ gen.pc \in {"created", "yielded", "last"}
    /\ \E error \in BOOLEAN : gen' = stream_users_in_batches(gen, error)
    /\ UNCHANGED <<messaging, limiter, call, chat>>

\* batch_processing's loop goes round once more.
Process ==
    /\ gen.fn = "batch_processing"
    /\ gen.pc \in {"created", "yielded", "last"}
    /\ \E error \in BOOLEAN : gen' = batch_processing(gen, error)
    /\ UNCHANGED <<messaging, limiter, call, chat>>

GenInit == gen = NoGenerator

\* ================================================================== messaging_app/chats
\* The users of the chat API, the requester without credentials, a user id
\* that no user has, and the numbers of conversations and messages stored.
ChatUsers == {1, 2}
Anonymous == 0
UnknownUser == 9
MaxConversations == 2
MaxChatMessages == 2
MessageBodies == {"a", "b"}

\* rest_framework.permissions.SAFE_METHODS.
SAFE_METHODS == {"GET", "HEAD", "OPTIONS"}

\* The responses: the status lines of the API.
Allowed == {"200 OK", "201 Created", "204 No Content"}

\* The elements of a list.
ListItems(list) == {list[i] : i \in DOMAIN list}

\* The participant_ids a request may carry: lists of up to two ids of users
\* and of no user, with repetitions.
ParticipantIds ==
    UNION {[1..n -> ChatUsers \cup {UnknownUser}] : n \in 0..2}

\* No request yet.
\*   view, action   the ViewSet and its action
\*   method         the HTTP method
\*   user           request.user (Anonymous without credentials)
\*   message        the message_id of the URL, or None
\*   conversation   the conversation_id of the URL or of the data, or None
\*   given, participant_ids   whether the data has participant_ids, and the list
\*   listed         the ids of the messages a list returned
\*   status         the status of the response
NoApi ==
    [view |-> "", action |-> "", method |-> "", user |-> Anonymous,
     message |-> None, conversation |-> None, given |-> FALSE,
     participant_ids |-> << >>, listed |-> {}, status |-> ""]

ApiRequest(view, action, method, user) ==
    [NoApi EXCEPT !.view = view, !.action = action, !.method = method,
                  !.user = user]

\* IsParticipantOfConversation.has_permission: the user is authenticated.
has_permission(user) == user # Anonymous /\ user \in members

\* IsParticipantOfConversation.has_object_permission, for a Message (through
\* obj.conversation.participants) and for a Conversation (obj.participants):
\* the same answer for every method.
IsParticipantOfConversation(user, method, participants) ==
    IF method \in {"PUT", "PATCH", "DELETE"}
    THEN user \in participants
    ELSE user \in participants

\* IsMessageSenderOrReadOnly.has_object_permission.
IsMessageSenderOrReadOnly(user, method, sender) ==
    IF method \in SAFE_METHODS THEN TRUE
    ELSE IF method \in {"PUT", "PATCH", "DELETE"} THEN sender = user
    ELSE sender = user

\* The permission classes taken to be in force: both on MessageViewSet, the
\* first on ConversationViewSet. APIView.check_object_permissions, which
\* get_object() calls and nothing else does: every class must agree.
check_object_permissions(view, user, method, participants, sender) ==
    /\ IsParticipantOfConversation(user, method, participants)
    /\ view = "messages" => IsMessageSenderOrReadOnly(user, method, sender)

\* A response without any change of the tables.
Answer(request, status) ==
    /\ api' = [request EXCEPT !.status = status]
    /\ UNCHANGED <<members, conversations, chat_messages>>

\* ConversationSerializer.validate_participant_ids: the list, when it is
\* given, is not empty.
validate_participant_ids(given, participant_ids) ==
    given => participant_ids # << >>

\* ConversationViewSet.create with ConversationSerializer.create: the
\* conversation is inserted first; then the participants are looked up, and
\* the request fails when the lookup finds fewer (or more) users than the list
\* has entries; each statement commits by itself.
ConversationCreate ==
    \E user \in ChatUsers \cup {Anonymous}, given \in BOOLEAN,
       ids \in ParticipantIds :
    LET request == [ApiRequest("conversations", "create", "POST", user) EXCEPT
                        !.given = given,
                        !.participant_ids = IF given THEN ids ELSE << >>]
        participant_ids == IF given THEN ids ELSE << >>
        participants == ListItems(participant_ids) \cap members
    IN  /\ given \/ ids = << >>
        /\ Len(conversations) < MaxConversations
        /\ UNCHANGED <<members, chat_messages>>
        /\ IF ~has_permission(user)
           THEN Answer(request, "401 Unauthorized")
           ELSE IF ~validate_participant_ids(given, ids)
           THEN Answer(request, "400 Bad Request")
           ELSE IF participant_ids # << >>
                   /\ Cardinality(participants) # Len(participant_ids)
           THEN /\ conversations' = Append(conversations, {})
                /\ api' = [request EXCEPT !.status = "400 Bad Request"]
           ELSE /\ conversations' = Append(conversations, participants)
                /\ api' = [request EXCEPT !.status = "201 Created",
                                          !.conversation = Len(conversations) + 1]
    /\ UNCHANGED <<messaging, limiter, call, gen>>

\* ConversationViewSet.retrieve: get_object() and the serialized conversation.
ConversationRetrieve ==
    \E user \in ChatUsers \cup {Anonymous}, conversation_id \in 1..MaxConversations :
    LET request == [ApiRequest("conversations", "retrieve", "GET", user) EXCEPT
                        !.conversation = conversation_id]
    IN  /\ IF ~has_permission(user)
           THEN Answer(request, "401 Unauthorized")
           ELSE IF conversation_id \notin DOMAIN conversations
           THEN Answer(request, "404 Not Found")
           ELSE IF ~check_object_permissions("conversations", user, "GET",
                                             conversations[conversation_id], None)
           THEN Answer(request, "403 Forbidden")
           ELSE Answer(request, "200 OK")
    /\ UNCHANGED <<messaging, limiter, call, gen>>

\* MessageViewSet.list over get_queryset() without query parameters.
MessageList ==
    \E user \in ChatUsers \cup {Anonymous} :
    LET request == ApiRequest("messages", "list", "GET", user)
    IN  /\ IF ~has_permission(user)
           THEN Answer(request, "401 Unauthorized")
           ELSE Answer([request EXCEPT !.listed = DOMAIN chat_messages], "200 OK")
    /\ UNCHANGED <<messaging, limiter, call, gen>>

\* MessageViewSet.create with MessageSerializer.create: the sender is the
\* user of the sender_id of the data.
MessageCreate ==
    \E user \in ChatUsers \cup {Anonymous}, sender_id \in ChatUsers \cup {UnknownUser},
       conversation \in 1..MaxConversations, message_body \in MessageBodies :
    LET request == [ApiRequest("messages", "create", "POST", user) EXCEPT
                        !.conversation = conversation]
        unused == (1..MaxChatMessages) \ DOMAIN chat_messages
        message_id == CHOOSE i \in unused : \A j \in unused : i <= j
    IN  /\ unused # {}
        /\ IF ~has_permission(user)
           THEN Answer(request, "401 Unauthorized")
           ELSE IF conversation \notin DOMAIN conversations \/ sender_id \notin members
           THEN Answer(request, "400 Bad Request")
           ELSE /\ chat_messages' =
                    [i \in DOMAIN chat_messages \cup {message_id} |->
                        IF i = message_id
                        THEN [sender |-> sender_id, conversation |-> conversation,
                              message_body |-> message_body]
                        ELSE chat_messages[i]]
                /\ api' = [request EXCEPT !.message = message_id,
                                          !.status = "201 Created"]
                /\ UNCHANGED <<members, conversations>>
    /\ UNCHANGED <<messaging, limiter, call, gen>>

\* get_object() of MessageViewSet for the detail actions: 404 without the
\* message, 403 when a permission class refuses, "" when the action goes on.
MessageObject(user, method, message_id) ==
    IF ~has_permission(user) THEN "401 Unauthorized"
    ELSE IF message_id \notin DOMAIN chat_messages THEN "404 Not Found"
    ELSE IF ~check_object_permissions("messages", user, method,
                conversations[chat_messages[message_id].conversation],
                chat_messages[message_id].sender)
    THEN "403 Forbidden"
    ELSE ""

\* MessageViewSet.retrieve.
MessageRetrieve ==
    \E user \in ChatUsers \cup {Anonymous}, message_id \in 1..MaxChatMessages :
    LET request == [ApiRequest("messages", "retrieve", "GET", user) EXCEPT
                        !.message = message_id]
        refused == MessageObject(user, "GET", message_id)
    IN  /\ Answer(request, IF refused # "" THEN refused ELSE "200 OK")
    /\ UNCHANGED <<messaging, limiter, call, gen>>

\* MessageViewSet.update (PUT): every writable field of the serializer is
\* written, sender_id and conversation included.
MessageUpdate ==
    \E user \in ChatUsers \cup {Anonymous}, message_id \in 1..MaxChatMessages,
       sender_id \in ChatUsers, conversation \in 1..MaxConversations,
       message_body \in MessageBodies :
    LET request == [ApiRequest("messages", "update", "PUT", user) EXCEPT
                        !.message = message_id]
        refused == MessageObject(user, "PUT", message_id)
    IN  /\ IF refused # ""
           THEN Answer(request, refused)
           ELSE IF conversation \notin DOMAIN conversations
           THEN Answer(request, "400 Bad Request")
           ELSE /\ chat_messages' =
                    [chat_messages EXCEPT ![message_id] =
                        [sender |-> sender_id, conversation |-> conversation,
                         message_body |-> message_body]]
                /\ api' = [request EXCEPT !.status = "200 OK"]
                /\ UNCHANGED <<members, conversations>>
    /\ UNCHANGED <<messaging, limiter, call, gen>>

\* MessageViewSet.partial_update (PATCH), here of the body.
MessagePartialUpdate ==
    \E user \in ChatUsers \cup {Anonymous}, message_id \in 1..MaxChatMessages,
       message_body \in MessageBodies :
    LET request == [ApiRequest("messages", "partial_update", "PATCH", user) EXCEPT
                        !.message = message_id]
        refused == MessageObject(user, "PATCH", message_id)
    IN  /\ IF refused # ""
           THEN Answer(request, refused)
           ELSE /\ chat_messages' =
                    [chat_messages EXCEPT ![message_id].message_body = message_body]
                /\ api' = [request EXCEPT !.status = "200 OK"]
                /\ UNCHANGED <<members, conversations>>
    /\ UNCHANGED <<messaging, limiter, call, gen>>

\* MessageViewSet.destroy.
MessageDestroy ==
    \E user \in ChatUsers \cup {Anonymous}, message_id \in 1..MaxChatMessages :
    LET request == [ApiRequest("messages", "destroy", "DELETE", user) EXCEPT
                        !.message = message_id]
        refused == MessageObject(user, "DELETE", message_id)
    IN  /\ IF refused # ""
           THEN Answer(request, refused)
           ELSE /\ chat_messages' =
                    [i \in DOMAIN chat_messages \ {message_id} |-> chat_messages[i]]
                /\ api' = [request EXCEPT !.status = "204 No Content"]
                /\ UNCHANGED <<members, conversations>>
    /\ UNCHANGED <<messaging, limiter, call, gen>>

\* The registered users; no conversation, no message, no request yet.
ChatInit ==
    /\ members = ChatUsers
    /\ conversations = << >>
    /\ chat_messages = << >>
    /\ api = NoApi

\* ------------------------------------------------------------------ specifications
\* The messaging core before its first request.
MessagingInit ==
    /\ users = Users
    /\ messages = << >>
    /\ notifications = {}
    /\ histories = {}
    /\ nextMsg = 1
    /\ nextNotif = 1
    /\ nextHist = 1
    /\ req = [r \in Slots |-> Idle]
    /\ response = Idle

Init ==
    /\ MessagingInit
    /\ LimiterInit
    /\ CallInit
    /\ GenInit
    /\ ChatInit

\* The handlers one after another, every statement succeeding.
Next ==
    \/ Send(1, NoFail)
    \/ Edit(1, NoFail)
    \/ Detail(1, NoFail)
    \/ DeleteUser(1)
    \/ MarkNotificationRead(1)

Spec == Init /\ [][Next]_vars

\* The handlers one after another, a writing statement of an edit possibly failing.
NextFail ==
    \/ Send(1, NoFail)
    \/ \E k \in FailAt : Edit(1, k)
    \/ Detail(1, NoFail)
    \/ DeleteUser(1)

SpecFail == Init /\ [][NextFail]_vars

\* Two requests that save a Message in flight, their statements interleaved.
NextConc ==
    \E r \in Slots :
        \/ SendBegin(r)
        \/ EditBegin(r)
        \/ DetailBegin(r)
        \/ DeleteUserBegin(r)
        \/ Execute(r)

Empty ==
    [users |-> Users, messages |-> << >>, notifications |-> {}, histories |-> {},
     nextMsg |-> 1, nextNotif |-> 1, nextHist |-> 1, q |-> Idle]

Sent == Run(send_message(Empty, 1, "POST", 2, "a", None), NoFail)

InitConc ==
    /\ users = Sent.users
    /\ messages = Sent.messages
    /\ notifications = Sent.notifications
    /\ histories = Sent.histories
    /\ nextMsg = Sent.nextMsg
    /\ nextNotif = Sent.nextNotif
    /\ nextHist = Sent.nextHist
    /\ req = [r \in Slots |-> Idle]
    /\ response = Idle
    /\ LimiterInit
    /\ CallInit
    /\ GenInit
    /\ ChatInit

SpecConc == InitConc /\ [][NextConc]_vars

\* A conversation: the messages of sends, sent one after another.
RECURSIVE Conversation(_, _)
Conversation(w, sends) ==
    IF sends = << >> THEN w
    ELSE Conversation(Run(send_message(w, sends[1].sender, "POST", sends[1].receiver,
                                       "a", sends[1].parent), NoFail),
                      Tail(sends))

\* The conversations of ThreadMsgs messages: each message is a new thread or
\* a reply to a message sent before it.
Conversations ==
    {sends \in [1..ThreadMsgs -> [sender : Users, receiver : Users,
                                   parent : {None} \cup 1..ThreadMsgs]] :
        \A k \in 1..ThreadMsgs : sends[k].parent < k}

ThreadedConversation(r) ==
    \E u \in users, message_id \in 1..ThreadMsgs :
        Respond(r, threaded_conversation(World(Idle), u, message_id))

\* The database after a conversation.
InitThread ==
    \E sends \in Conversations :
        LET w == Conversation(Empty, sends)
        IN  /\ users = w.users
            /\ messages = w.messages
            /\ notifications = w.notifications
            /\ histories = w.histories
            /\ nextMsg = w.nextMsg
            /\ nextNotif = w.nextNotif
            /\ nextHist = w.nextHist
            /\ req = [r \in Slots |-> Idle]
            /\ response = Idle
            /\ LimiterInit
            /\ CallInit
            /\ GenInit
            /\ ChatInit

\* A conversation is browsed.
NextThread == ThreadedConversation(1)

SpecThread == InitThread /\ [][NextThread]_vars

\* Message.unread_objects.unread_for_user(user), as a caller evaluates it.
UnreadForUser(r) ==
    \E u \in users :
        Respond(r, [World(Idle) EXCEPT
                        !.q = Done([Start("unread_for_user", u) EXCEPT
                                        !.context = unread_for_user(messages, u)],
                                   "QuerySet")])

\* The messages of a conversation are opened and the unread ones are asked for.
NextInbox ==
    \/ Detail(1, NoFail)
    \/ UnreadForUser(1)

SpecInbox == InitThread /\ [][NextInbox]_vars

\* The rate limiter: requests, one after another, and the clock.
NextLimiter ==
    \/ Handle
    \/ Tick

SpecLimiter == Init /\ [][NextLimiter]_vars

\* One call of a function decorated as fetch_users_with_retry is.
NextCall ==
    \/ Call
    \/ Connect
    \/ While
    \/ Invoke
    \/ Sleep
    \/ Close

SpecCall == Init /\ [][NextCall]_vars

\* One generator and its consumer.
NextGen ==
    \/ Generate
    \/ NextPage
    \/ NextBatch
    \/ Process

SpecGen == Init /\ [][NextGen]_vars

\* The chat API, one request at a time.
NextChat ==
    \/ ConversationCreate
    \/ ConversationRetrieve
    \/ MessageList
    \/ MessageCreate
    \/ MessageRetrieve
    \/ MessageUpdate
    \/ MessagePartialUpdate
    \/ MessageDestroy

SpecChat == Init /\ [][NextChat]_vars

\* ------------------------------------------------------------------ properties
\* Every foreign key of every row resolves.
RefsResolve ==
    /\ \A i \in DOMAIN messages :
        /\ messages[i].sender \in users
        /\ messages[i].receiver \in users
        /\ messages[i].parent_message # None =>
                messages[i].parent_message \in DOMAIN messages
    /\ \A n \in notifications : n.user \in users /\ n.message \in DOMAIN messages
    /\ \A h \in histories : h.message \in DOMAIN messages /\ h.edited_by \in users

\* No row is bound to user u.
Gone(u) ==
    /\ \A i \in DOMAIN messages : messages[i].sender # u /\ messages[i].receiver # u
    /\ \A n \in notifications : n.user # u
    /\ \A h \in histories : h.edited_by # u

\* C1: a successful send creates exactly one Notification: its target is the
\* new message's receiver, it references the new message, its kind is 'reply'
\* if the message has a parent and 'message' if it has none; the send creates
\* no other Notification (and removes none).
C1_SendNotifiesOnce ==
    [][(response'.op = "send" /\ response'.result = "redirect") =>
        LET m == response'.inst.pk
            new == notifications' \ notifications
        IN  /\ m \notin DOMAIN messages
            /\ m \in DOMAIN messages'
            /\ notifications \subseteq notifications'
            /\ Cardinality(new) = 1
            /\ \A n \in new :
                /\ n.user = messages'[m].receiver
                /\ n.message = m
                /\ n.notification_type =
                        IF messages'[m].parent_message = None THEN "message" ELSE "reply"
                /\ ~n.read
    ]_vars

\* C1 witness: a reply was sent and its receiver holds a 'reply' notification.
C1_Witness ==
    /\ response.op = "send" /\ response.result = "redirect"
    /\ response.inst.pk \in DOMAIN messages
    /\ messages[response.inst.pk].parent_message # None
    /\ \E n \in notifications :
        n.message = response.inst.pk /\ n.notification_type = "reply"

\* C2: an edit by the sender whose new body differs from the stored body
\* goes through, creates exactly one MessageHistory row, holding the body the message had
\* before the edit, and exactly one 'edit' Notification for the receiver, and
\* leaves the message edited with the new body.
C2_EditLogsOnce ==
    [][\A m \in DOMAIN messages :
        ( /\ response'.op = "edit"
          /\ response'.inst.pk = m
          /\ response'.user = messages[m].sender
          /\ response'.inst.content # messages[m].content )
        =>
        LET newH == histories' \ histories
            newN == notifications' \ notifications
        IN  /\ response'.result = "redirect"
            /\ histories \subseteq histories'
            /\ Cardinality(newH) = 1
            /\ \A h \in newH : h.message = m /\ h.old_content = messages[m].content
            /\ notifications \subseteq notifications'
            /\ Cardinality(newN) = 1
            /\ \A n \in newN :
                /\ n.notification_type = "edit"
                /\ n.user = messages[m].receiver
                /\ n.message = m
            /\ m \in DOMAIN messages'
            /\ messages'[m].edited
            /\ messages'[m].content = response'.inst.content
    ]_vars

\* C2 witness: an edit went through and the history holds another body than
\* the one the message has now.
C2_Witness ==
    /\ response.op = "edit" /\ response.result = "redirect"
    /\ response.inst.pk \in DOMAIN messages
    /\ messages[response.inst.pk].edited
    /\ messages[response.inst.pk].content = response.inst.content
    /\ \E h \in histories :
        h.message = response.inst.pk /\ h.old_content # response.inst.content

\* C3: an edit by the sender whose new body equals the stored body (or that
\* carries none) creates no MessageHistory row and no Notification, and leaves
\* the body and the edited flag as they were.
C3_SameBodyEditIsNoOp ==
    [][\A m \in DOMAIN messages :
        ( /\ response'.op = "edit"
          /\ response'.inst.pk = m
          /\ response'.user = messages[m].sender
          /\ response'.inst.content = messages[m].content )
        =>
        /\ response'.result \in {"redirect", "form"}
        /\ histories' = histories
        /\ notifications' = notifications
        /\ m \in DOMAIN messages'
        /\ messages'[m].content = messages[m].content
        /\ messages'[m].edited = messages[m].edited
    ]_vars

\* C3 witness: an edit was saved on a message that is not edited and has no
\* history: the edit carried the body the message already had.
C3_Witness ==
    /\ response.op = "edit" /\ response.result = "redirect"
    /\ response.inst.pk \in DOMAIN messages
    /\ messages[response.inst.pk].content = response.inst.content
    /\ ~messages[response.inst.pk].edited
    /\ \A h \in histories : h.message # response.inst.pk

\* C4: once a user is deleted, no Message has them as sender or receiver, no
\* Notification targets them, no MessageHistory names them as editor, and
\* every reference of every remaining row resolves (a reply's parent too).
C4_DeletedUserLeavesNothing ==
    \A u \in Users \ users : Gone(u) /\ RefsResolve

\* C4 witness: a user was deleted, a message they were in went with them, and
\* a message of the other user is still there.
C4_Witness ==
    /\ response.op = "delete" /\ response.result = "redirect"
    /\ Users \ users # {}
    /\ DOMAIN messages # {}
    /\ Cardinality(DOMAIN messages) < nextMsg - 1

\* The request of slot r has inserted its MessageHistory row and has not yet
\* written the message.
Logged(r) ==
    /\ req[r].op = "edit"
    /\ req[r].pc \in {"notif", "update"}
    /\ req[r].old # ""

\* C5: two edits of one message that run concurrently, each with a body of
\* its own, never both record the same pre-edit body.
C5_ConcurrentEditsRecordDistinctBodies ==
    \A r1, r2 \in Slots :
        ( /\ r1 # r2
          /\ Logged(r1) /\ Logged(r2)
          /\ req[r1].inst.pk = req[r2].inst.pk
          /\ req[r1].inst.content # req[r2].inst.content )
        => req[r1].old # req[r2].old

\* C6: a user's deletion is all or nothing.  In the step that removes user u
\* every row bound to u goes too and every reference that is left resolves,
\* whatever the other request has done so far; and no row is removed by any
\* step that does not delete a user.
C6_DeletionAllOrNothing ==
    [][ /\ \A u \in users \ users' : Gone(u)' /\ RefsResolve'
        /\ users' = users =>
            /\ DOMAIN messages \subseteq DOMAIN messages'
            /\ {n.id : n \in notifications} \subseteq {n.id : n \in notifications'}
            /\ {h.id : h \in histories} \subseteq {h.id : h \in histories'}
    ]_vars

\* C6 witness: a user was deleted while a request that holds one of the
\* deleted messages was between two of its statements.
C6_Witness ==
    /\ Users \ users # {}
    /\ \E r \in Slots :
        /\ ~Free(r)
        /\ req[r].inst.pk # None
        /\ req[r].inst.pk \notin DOMAIN messages

\* C7: an edit is atomic: when a statement of its save fails, no MessageHistory
\* row and no Notification of that edit remains and the message is as it was.
C7_FailedEditLeavesNothing ==
    [][(response'.op = "edit" /\ response'.result = "DatabaseError") =>
        /\ histories' = histories
        /\ notifications' = notifications
        /\ messages' = messages
    ]_vars

\* C8: an edit requested by a user who is not the message's sender is answered
\* Forbidden and changes no message, no MessageHistory row and no Notification.
C8_ForeignEditForbidden ==
    [][\A m \in DOMAIN messages :
        ( /\ response'.op = "edit"
          /\ response'.inst.pk = m
          /\ response'.user # messages[m].sender )
        =>
        /\ response'.result = "Forbidden"
        /\ messages' = messages
        /\ histories' = histories
        /\ notifications' = notifications
    ]_vars

\* C8 witness: a user who is not the sender of an existing message asked to
\* edit it and was refused.
C8_Witness ==
    /\ response.op = "edit" /\ response.result = "Forbidden"
    /\ response.inst.pk \in DOMAIN messages
    /\ messages[response.inst.pk].sender # response.user
    /\ response.user \in users

\* Following parent_message from message i ends at a message without a parent
\* within fuel steps.
RECURSIVE ChainEnds(_, _)
ChainEnds(i, fuel) ==
    \/ i = None
    \/ /\ fuel > 0
       /\ i \in DOMAIN messages
       /\ ChainEnds(messages[i].parent_message, fuel - 1)

\* C9: every message with a parent references an existing message other than
\* itself, and its chain of parents ends at a message without a parent.
C9_ParentsExistAndEnd ==
    \A i \in DOMAIN messages :
        /\ messages[i].parent_message # None =>
            /\ messages[i].parent_message \in DOMAIN messages
            /\ messages[i].parent_message # i
        /\ ChainEnds(i, Cardinality(DOMAIN messages))

\* C9 witness: a reply and its parent exist after a user was deleted.
C9_Witness ==
    /\ Users \ users # {}
    /\ \E i \in DOMAIN messages :
        /\ messages[i].parent_message \in DOMAIN messages
        /\ messages[i].read

\* C10: a send whose parent id resolves to no Message fails (with the 404 of
\* get_object_or_404 when the receiver and the content are given, with the
\* 'required' error when they are not) and creates no Message and no Notification.
C10_UnknownParentCreatesNothing ==
    [][( /\ response'.op = "send"
         /\ response'.inst.parent_message # None
         /\ response'.inst.parent_message \notin DOMAIN messages )
        =>
        /\ response'.result \in {"Http404", "required"}
        /\ (response'.inst.receiver \in users /\ response'.inst.content # "")
                => response'.result = "Http404"
        /\ messages' = messages
        /\ notifications' = notifications
        /\ nextMsg' = nextMsg
    ]_vars

\* C10 witness: a send to an existing receiver, with a body, named a parent
\* that does not exist and was answered 404.
C10_Witness ==
    /\ response.op = "send" /\ response.result = "Http404"
    /\ response.inst.receiver \in users
    /\ response.inst.content # ""
    /\ response.inst.parent_message # None
    /\ response.inst.parent_message \notin DOMAIN messages

\* C11: every 'reply' Notification references a message that has a parent, and
\* every 'edit' Notification is created by a save that changes the body of the
\* message it references: the save of an edit_message request, never the
\* read-flag save of message_detail, however the requests interleave.
C11_NotificationKindsMatchTheirCause ==
    [][ /\ \A n \in notifications' :
            n.notification_type = "reply" =>
                /\ n.message \in DOMAIN messages'
                /\ messages'[n.message].parent_message # None
        /\ \A n \in notifications' \ notifications :
            n.notification_type = "edit" =>
                \E r \in Slots :
                    /\ req[r].op = "edit"
                    /\ req[r].pc = "notif"
                    /\ req[r].inst.pk = n.message
                    /\ req[r].inst.content # req[r].old
    ]_vars

\* C12: a MessageHistory row is created only by a save that changes the stored
\* body of its message: the step that inserts one belongs to a save that
\* writes the body (never the read-flag save) with a body other than the one
\* the row records, and a message that is created has no MessageHistory row.
C12_HistoryOnlyFromBodyChangingSave ==
    [][ /\ \A h \in histories' \ histories :
            \E r \in Slots :
                /\ req[r].pc = "hist"
                /\ req[r].inst.pk = h.message
                /\ req[r].fields = "all"
                /\ req[r].inst.content # h.old_content
        /\ \A m \in DOMAIN messages' \ DOMAIN messages :
            \A h \in histories' : h.message # m
    ]_vars

\* C13: marking a message read is idempotent: when the receiver opens a
\* message that is already read, the message stays read, the view saves
\* nothing, and no MessageHistory row and no Notification is created: the
\* tables are as they were.
C13_MarkReadIdempotent ==
    [][\A m \in DOMAIN messages :
        ( /\ response'.op = "detail"
          /\ response'.inst.pk = m
          /\ response'.user = messages[m].receiver
          /\ messages[m].read )
        =>
        /\ response'.result = "render"
        /\ ~response'.saved
        /\ messages' = messages
        /\ messages'[m].read
        /\ histories' = histories
        /\ notifications' = notifications
    ]_vars

\* C13 witness: the receiver opened a message that had been marked read before
\* (the view wrote nothing this time) and that has been edited since it was sent.
C13_Witness ==
    /\ response.op = "detail" /\ response.result = "render"
    /\ ~response.saved
    /\ response.inst.pk \in DOMAIN messages
    /\ response.user = messages[response.inst.pk].receiver
    /\ response.user # messages[response.inst.pk].sender
    /\ messages[response.inst.pk].read
    /\ messages[response.inst.pk].edited

\* C14 (as claimed): opening a message as a reader who is not its receiver
\* fails with Forbidden and leaves the message's read flag unchanged.
C14_NonReceiverForbidden ==
    [][\A m \in DOMAIN messages :
        ( /\ response'.op = "detail"
          /\ response'.inst.pk = m
          /\ response'.user # messages[m].receiver )
        =>
        /\ response'.result = "Forbidden"
        /\ m \in DOMAIN messages'
        /\ messages'[m].read = messages[m].read
    ]_vars

\* C14 (amended): opening a message as a reader who is not its receiver never
\* changes its read flag, and writes nothing at all: a reader who is neither
\* the receiver nor the sender is answered Forbidden, and the sender is shown
\* the message.
C14_NonReceiverNeverMarksRead ==
    [][\A m \in DOMAIN messages :
        ( /\ response'.op = "detail"
          /\ response'.inst.pk = m
          /\ response'.user # messages[m].receiver )
        =>
        /\ response'.result =
                IF response'.user = messages[m].sender THEN "render" ELSE "Forbidden"
        /\ ~response'.saved
        /\ messages' = messages
        /\ histories' = histories
        /\ notifications' = notifications
    ]_vars

\* C14 witness: a user who is neither the sender nor the receiver of an unread
\* message asked for it and was refused.
C14_Witness ==
    /\ response.op = "detail" /\ response.result = "Forbidden"
    /\ response.inst.pk \in DOMAIN messages
    /\ response.user \in users
    /\ response.user # messages[response.inst.pk].receiver
    /\ response.user # messages[response.inst.pk].sender
    /\ ~messages[response.inst.pk].read

\* C15: a message's read flag is changed only by its receiver marking it read:
\* however the requests interleave, a step that changes the stored flag is the
\* read-flag save of the receiver's message_detail, so a message that is read
\* never becomes unread again (an edit by the sender leaves the flag alone).
C15_ReadFlagOnlyByReceiver ==
    [][\A m \in DOMAIN messages \cap DOMAIN messages' :
        /\ messages[m].read => messages'[m].read
        /\ messages'[m].read # messages[m].read =>
                \E r \in Slots :
                    /\ req[r].op = "detail"
                    /\ req[r].pc = "update"
                    /\ req[r].inst.pk = m
                    /\ req[r].user = messages[m].receiver
    ]_vars

\* C16: a Notification's read flag only moves from unread to read: a
\* notification is unread when it is created, and one that is read stays read
\* in every step, a further mark_notification_read included.
C16_NotificationReadOneWay ==
    [][ /\ \A n \in notifications : \A n2 \in notifications' :
            (n2.id = n.id /\ n.read) => n2.read
        /\ \A n2 \in notifications' :
            (\A n \in notifications : n.id # n2.id) => ~n2.read
    ]_vars

\* C16 witness: a notification was marked read by its target, and a
\* notification created after it is unread.
C16_Witness ==
    /\ response.op = "mark_notification_read"
    /\ response.result \in {"redirect", "JsonResponse"}
    /\ \E n \in notifications :
        /\ n.id = response.notification /\ n.user = response.user /\ n.read
        /\ \E n2 \in notifications : n2.id > n.id /\ ~n2.read

RECURSIVE HasAncestor(_, _, _)
HasAncestor(i, m, fuel) ==
    /\ fuel > 0
    /\ i \in DOMAIN messages
    /\ messages[i].parent_message # None
    /\ \/ messages[i].parent_message = m
       \/ HasAncestor(messages[i].parent_message, m, fuel - 1)

\* The messages a nested structure holds, in the order they were visited.
RECURSIVE Visited(_)
Visited(nested) ==
    IF nested = << >> THEN << >>
    ELSE <<nested[1].message>> \o Visited(nested[1].replies) \o Visited(Tail(nested))

\* The sequence s holds every element of the set S once and nothing else.
ExactlyOnce(s, S) ==
    /\ Len(s) = Cardinality(S)
    /\ {s[k] : k \in 1..Len(s)} = S

C19_DeletionEmitsNothing ==
    [][response'.op = "delete" =>
        /\ notifications' \subseteq notifications
        /\ histories' \subseteq histories
        /\ nextNotif' = nextNotif
        /\ nextHist' = nextHist
    ]_vars

\* C19 witness: a user was deleted, notifications went with them, and a
\* notification of the other user is still there.
C19_Witness ==
    /\ response.op = "delete" /\ response.result = "redirect"
    /\ response.user \notin users
    /\ notifications # {}
    /\ Cardinality(notifications) < nextNotif - 1

\* C20: the edit history message_detail shows is exactly the MessageHistory
\* rows of the message, each once, the most recent edit first: every entry was
\* recorded after the entry that follows it and holds another body than that
\* one (the body the later edit superseded is the one the earlier edit wrote),
\* and the first entry holds another body than the message has now.
C20_HistoryNewestFirst ==
    (response.op = "detail" /\ response.result = "render") =>
        LET m == response.inst.pk
            eh == response.context.edit_history
        IN  /\ ExactlyOnce(eh, {h \in histories : h.message = m})
            /\ \A k \in 1..(Len(eh) - 1) :
                /\ eh[k].id > eh[k + 1].id
                /\ eh[k].old_content # eh[k + 1].old_content
            /\ eh # << >> => eh[1].old_content # messages[m].content

\* C20 witness: a message sent as "a" was edited to "b" and then to "c"; its
\* history shows "b", the body the second edit superseded, before "a".
C20_Witness ==
    /\ response.op = "detail" /\ response.result = "render"
    /\ Len(response.context.edit_history) = 2
    /\ response.context.edit_history[1].old_content = "b"
    /\ response.context.edit_history[2].old_content = "a"
    /\ messages[response.inst.pk].content = "c"

\* C21: in any state unread_for_user(u) returns exactly the messages whose
\* receiver is u and whose read flag is false, each once: a message u has read
\* and a message u sent to somebody else are not among them.
C21_UnreadForUserIsExact ==
    response.op = "unread_for_user" =>
        LET u == response.user
            unread == response.context
        IN  /\ ExactlyOnce(unread, {i \in DOMAIN messages :
                                        messages[i].receiver = u /\ ~messages[i].read})
            /\ \A k \in 1..Len(unread) :
                /\ ~messages[unread[k]].read
                /\ messages[unread[k]].sender = u => messages[unread[k]].receiver = u

\* C21 witness: the user has an unread message, has read another, and has sent
\* a third that its receiver has not read; only the first is returned.
C21_Witness ==
    /\ response.op = "unread_for_user"
    /\ Len(response.context) = 1
    /\ \E i \in DOMAIN messages :
        messages[i].receiver = response.user /\ messages[i].read
    /\ \E i \in DOMAIN messages :
        /\ messages[i].sender = response.user
        /\ messages[i].receiver # response.user
        /\ ~messages[i].read

\* C28: deleting user u removes only data bound to u: every message whose
\* sender and receiver are both users other than u is still there after the
\* deletion, also when it is a reply to a message u sent or received.
C28_DeletionKeepsOthersMessages ==
    [][\A u \in users \ users' :
        \A m \in DOMAIN messages :
            (messages[m].sender # u /\ messages[m].receiver # u)
                => m \in DOMAIN messages'
    ]_vars

\* C29: however send, edit, mark-read and delete-user requests interleave, a
\* message is edited if and only if a MessageHistory row references it (as
\* soon as no request is in the middle of its save), and its edited flag never
\* goes back to false.
C29_EditedIffHistory ==
    [][ /\ \A m \in DOMAIN messages \cap DOMAIN messages' :
            messages[m].edited => messages'[m].edited
        /\ (\A r \in Slots : req'[r].pc = "idle") =>
                \A m \in DOMAIN messages' :
                    messages'[m].edited <=> \E h \in histories' : h.message = m
    ]_vars

\* C22: OffensiveLanguageMiddleware lets through at most MAX_MESSAGES POSTs to
\* the message paths per client address in any window of TIME_WINDOW seconds:
\* a request is answered 429 exactly when it is such a POST and its address has
\* MAX_MESSAGES accepted ones less than TIME_WINDOW seconds old; a rejected
\* request is recorded nowhere; requests with another method or path, and the
\* other addresses, leave the counts alone.
C22_AtMostFivePerWindow ==
    [][now' = now =>
        LET request == served'.request
            ip == IF request.forwarded # "" THEN request.forwarded ELSE request.remote
            counted == request.method = "POST" /\ request.path = "/api/messages/"
            recent == {i \in DOMAIN passed[ip] : now - passed[ip][i] < TIME_WINDOW}
        IN  /\ served'.status = TooManyRequests
                <=> (counted /\ Cardinality(recent) >= MAX_MESSAGES)
            /\ served'.status = TooManyRequests =>
                /\ passed' = passed
                /\ Len(message_counts'[ip]) <= Len(message_counts[ip])
            /\ ~counted => message_counts' = message_counts /\ passed' = passed
            /\ \A other \in Addresses \ {ip} :
                /\ message_counts'[other] = message_counts[other]
                /\ passed'[other] = passed[other]
            /\ \A a \in Addresses : \A i \in DOMAIN passed'[a] :
                    Cardinality({j \in DOMAIN passed'[a] :
                        /\ passed'[a][j] >= passed'[a][i]
                        /\ passed'[a][j] - passed'[a][i] < TIME_WINDOW}) <= MAX_MESSAGES
    ]_vars

\* C22 witness: an address that was let through MAX_MESSAGES times, and again
\* after the window had passed, is answered 429 while the other address has
\* been let through too.
C22_Witness ==
    /\ served.status = TooManyRequests
    /\ served.request.forwarded = "10.0.0.2"
    /\ Len(passed["10.0.0.2"]) > MAX_MESSAGES
    /\ Len(passed["10.0.0.1"]) > 0
    /\ now > 0

\* The invocations of the call so far that raised an Exception.
Failed == {i \in DOMAIN call.log : call.log[i].did \in Exceptions}

\* C23: with retries = n >= 1 the function is invoked at most n times; only
\* its last invocation can have succeeded; the wrapper returns only the result
\* of a successful invocation, the last one; once n invocations have raised,
\* it raises the exception of the n-th; and it ends with a result or an
\* exception.
C23_RetriesAtMostN ==
    (call.retries >= 1 /\ call.pc # "idle") =>
        /\ Len(call.log) <= call.retries
        /\ \A i \in DOMAIN call.log : i < Len(call.log) => i \in Failed
        /\ call.outcome.kind = "return" =>
            /\ call.log # << >>
            /\ call.log[Len(call.log)].did \in Results
            /\ call.outcome.value = call.log[Len(call.log)].did
        /\ (call.log # << >> /\ call.log[Len(call.log)].did \in Results) =>
                call.outcome = Returns(call.log[Len(call.log)].did)
        /\ Cardinality(Failed) = call.retries =>
                call.outcome = Raises(call.log[call.retries].did)
        /\ call.pc \in {"finally", "done"} => call.outcome.kind \in {"return", "raise"}

\* C23 witness: three tries were allowed, the first two and the third raised
\* different exceptions, and the call ended with the third's.
C23_Witness ==
    /\ call.pc = "done"
    /\ call.retries = MaxRetries
    /\ Len(call.log) = MaxRetries
    /\ call.log[1].did # call.log[MaxRetries].did
    /\ call.outcome = Raises(call.log[MaxRetries].did)

\* C24: with_db_connection opens one connection per call; every invocation of
\* the function, retries included, is handed that connection while it is open
\* and not yet closed; the connection is closed once, by the step after the
\* wrapped function's end, whether it returned or raised, and nothing is
\* invoked afterwards.
C24_OneConnectionClosedOnce ==
    [][ /\ call'.opened <= 1
        /\ call'.closed <= call'.opened
        /\ call'.log # call.log =>
            /\ call.conn = "open" /\ call.opened = 1 /\ call.closed = 0
            /\ call'.log[Len(call'.log)].conn = "open"
        /\ call'.closed # call.closed =>
            /\ call.outcome.kind \in {"return", "raise"}
            /\ call'.closed = 1 /\ call'.conn = "closed" /\ call'.pc = "done"
            /\ call'.log = call.log
        /\ (call'.pc = "done" /\ call'.opened = 1) =>
                call'.closed = 1 /\ call'.conn = "closed"
        /\ call'.pc # "done" => call'.closed = 0
    ]_vars

\* C24 witness: a call that was retried once and ended by raising has closed
\* its connection; both invocations were handed the open connection.
C24_Witness ==
    /\ call.pc = "done"
    /\ call.closed = 1
    /\ Len(call.log) = 2
    /\ \A i \in DOMAIN call.log : call.log[i].conn = "open"
    /\ call.outcome.kind = "raise"

\* C25: over a table that does not change and page_size >= 1, lazy_pagination
\* fetches at the offsets 0, page_size, 2*page_size, ..., one fetch per page
\* the consumer asks for; every yielded page has between 1 and page_size rows;
\* the pages yielded so far, one after the other, are the first rows of the
\* table in order, and all of them once the generator is exhausted; and it is
\* exhausted exactly by the first fetch that comes back empty.
C25_LazyPaginationPagesTheTable ==
    gen.fn = "lazy_pagination" =>
        LET rows == Flatten(gen.yielded)
        IN  /\ \A i \in DOMAIN gen.fetched : gen.fetched[i] = (i - 1) * gen.size
            /\ Len(gen.fetched) = gen.asked
            /\ \A i \in DOMAIN gen.yielded :
                    Len(gen.yielded[i]) \in 1..gen.size
            /\ Len(rows) <= Len(gen.table)
            /\ rows = SubSeq(gen.table, 1, Len(rows))
            /\ gen.pc = "done" =>
                /\ rows = gen.table
                /\ Len(gen.fetched) = Len(gen.yielded) + 1
            /\ gen.pc # "done" => Len(gen.fetched) = Len(gen.yielded)

\* C25 witness: a table of three rows was paged by two: a full page, a page of
\* one row, and the empty fetch that ended the generator.
C25_Witness ==
    /\ gen.fn = "lazy_pagination"
    /\ gen.pc = "done"
    /\ Len(gen.table) = MaxRows
    /\ gen.size = 2
    /\ Len(gen.yielded) = 2
    /\ gen.fetched = <<0, 2, 4>>

\* C26: for every batch_size >= 1, as long as the database raises no error,
\* the batches stream_users_in_batches has yielded, one after the other, are
\* the first rows of the table in cursor order, and all of them once it is
\* exhausted; every batch but the last has exactly batch_size rows and the
\* last has between 1 and batch_size; and batch_processing returns exactly the
\* rows with age > 25, in order, whatever batch_size is.
C26_BatchesCoverTheTable ==
    (gen.fn \in {"stream_users_in_batches", "batch_processing"} /\ ~gen.failed) =>
        LET rows == Flatten(gen.yielded)
        IN  /\ Len(rows) <= Len(gen.table)
            /\ rows = SubSeq(gen.table, 1, Len(rows))
            /\ \A i \in DOMAIN gen.yielded :
                /\ Len(gen.yielded[i]) \in 1..gen.size
                /\ Len(gen.yielded[i]) < gen.size =>
                        i = Len(gen.yielded) /\ rows = gen.table
            /\ gen.pc = "done" => rows = gen.table
            /\ (gen.pc = "done" /\ gen.fn = "batch_processing") =>
                    gen.result = SelectSeq(gen.table, LAMBDA user : user.age > 25)

\* C26 witness: batch_processing went through a table of three rows by
\* batches of two, kept a row of the full batch and the row of the last
\* batch, and left out a row aged exactly 25.
C26_Witness ==
    /\ gen.fn = "batch_processing"
    /\ gen.pc = "done"
    /\ ~gen.failed
    /\ gen.size = 2
    /\ Len(gen.yielded) = 2
    /\ Len(gen.result) = 2
    /\ gen.table[2].age = 25

\* C27: with the permission classes in force, a request that is let through
\* comes from an authenticated user; one that modifies or deletes a message
\* (PUT, PATCH, DELETE) comes from the message's sender; and whatever it reads,
\* writes or creates - a message, a conversation, a message sent to a
\* conversation, the messages of a list - belongs to a conversation the
\* requester participates in.
C27_OnlyParticipantsAndSenders ==
    [][( /\ api'.view = "messages" \/ api'.action = "retrieve"
         /\ api'.status \in Allowed )
        =>
        /\ api'.user # Anonymous
        /\ api'.method \in {"PUT", "PATCH", "DELETE"} =>
            /\ chat_messages[api'.message].sender = api'.user
            /\ api'.user \in conversations[chat_messages[api'.message].conversation]
        /\ (api'.view = "messages" /\ api'.action = "retrieve") =>
                api'.user \in conversations[chat_messages[api'.message].conversation]
        /\ (api'.view = "conversations" /\ api'.action = "retrieve") =>
                api'.user \in conversations[api'.conversation]
        /\ api'.action = "create" =>
                api'.user \in conversations[api'.conversation]
        /\ api'.action = "list" =>
                \A m \in api'.listed :
                    api'.user \in conversations[chat_messages[m].conversation]
    ]_vars

\* C30: a create that reaches ConversationSerializer.create either answers
\* 201 and stores one more conversation, whose participants are exactly the
\* users named by participant_ids, or - when some id names no user - answers
\* 400 and leaves the stored conversations as they were.
C30_CreateIsAllOrNothing ==
    [][( /\ api'.view = "conversations" /\ api'.action = "create"
         /\ api'.status # "401 Unauthorized"
         /\ api'.given => api'.participant_ids # << >> )
        =>
        IF ListItems(api'.participant_ids) \subseteq members
        THEN /\ api'.status = "201 Created"
             /\ conversations' = Append(conversations, ListItems(api'.participant_ids))
        ELSE /\ api'.status = "400 Bad Request"
             /\ conversations' = conversations
    ]_vars

====
